---- MODULE Spec2Model ----
(***************************************************************************)
(* Wind speed correction for Davis Vantage Pro 2 anemometers.              *)
(*                                                                         *)
(* Two programs are modelled side by side:                                 *)
(*   "float" : src/speedCorrection/interpolator.c                          *)
(*   "lite"  : src/speedCorrectionLite/interpolator.c                      *)
(*                                                                         *)
(* Each call of correctSpeed is a process that walks through the body of   *)
(* the function one statement group at a time.  The calibration tables are *)
(* the (non-const) globals of the two translation units.                   *)
(*                                                                         *)
(* C float/double values are modelled as exact rationals <<n, d>> in       *)
(* lowest terms (d > 0), extended with the non-finite values the division  *)
(* can produce: NaN = <<0,0>>, +inf = <<1,0>>, -inf = <<-1,0>>.  Rounding  *)
(* of binary floating point and the sign of zero are not modelled.         *)
(***************************************************************************)
EXTENDS Integers, Sequences, FiniteSets, TLC

(***************************************************************************)
(* Bounds of the model.                                                    *)
(***************************************************************************)
\* every integer raw speed in 0..MaxSpeedArg is passed by the sequential caller
MaxSpeedArg == 30
\* completed calls are counted up to MaxCalls
MaxCalls == 2
\* number of concurrent callers in SpecConc
NumCallers == 2

(***************************************************************************)
(* Exact arithmetic standing for C float arithmetic.                       *)
(***************************************************************************)
Abs(n) == IF n < 0 THEN -n ELSE n

Sign(n) == IF n < 0 THEN -1 ELSE IF n = 0 THEN 0 ELSE 1

RECURSIVE GCD(_, _)
GCD(a, b) == IF b = 0 THEN a ELSE GCD(b, a % b)

\* the value n/d of a division; d = 0 gives NaN (0/0) or a signed infinity
Rat(n, d) ==
    IF d = 0 THEN <<Sign(n), 0>>
    ELSE LET g == GCD(Abs(n), Abs(d))
             s == IF d < 0 THEN -1 ELSE 1
         IN  <<(s * n) \div g, (s * d) \div g>>

\* conversion of an integer to float
R(n) == <<n, 1>>

\* a decimal literal with one fractional digit, given in tenths (3.3 is T(33))
T(n) == Rat(n, 10)

NaN == <<0, 0>>

IsFinite(a) == a[2] # 0

IsNaN(a) == a = NaN

RNeg(a) == <<-a[1], a[2]>>

RAdd(a, b) ==
    IF IsNaN(a) \/ IsNaN(b) THEN NaN
    ELSE IF ~IsFinite(a) /\ ~IsFinite(b) THEN (IF a = b THEN a ELSE NaN)
    ELSE IF ~IsFinite(a) THEN a
    ELSE IF ~IsFinite(b) THEN b
    ELSE LET g == GCD(a[2], b[2])
         IN  Rat(a[1] * (b[2] \div g) + b[1] * (a[2] \div g), a[2] * (b[2] \div g))

RSub(a, b) == RAdd(a, RNeg(b))

RMul(a, b) ==
    IF IsNaN(a) \/ IsNaN(b) THEN NaN
    ELSE IF ~IsFinite(a) \/ ~IsFinite(b) THEN <<Sign(a[1]) * Sign(b[1]), 0>>
    ELSE LET g1 == GCD(Abs(a[1]), b[2])
             g2 == GCD(Abs(b[1]), a[2])
         IN  Rat((a[1] \div g1) * (b[1] \div g2), (a[2] \div g2) * (b[2] \div g1))

RDiv(a, b) ==
    IF IsNaN(a) \/ IsNaN(b) THEN NaN
    ELSE IF ~IsFinite(b) THEN (IF IsFinite(a) THEN R(0) ELSE NaN)
    ELSE IF ~IsFinite(a) THEN <<a[1] * (IF b[1] < 0 THEN -1 ELSE 1), 0>>
    ELSE IF b[1] = 0 THEN <<Sign(a[1]), 0>>
    ELSE RMul(a, Rat(b[2], b[1]))

\* a <= b and a > b as C compares floats: every comparison with NaN is false
RLeq(a, b) ==
    IF IsNaN(a) \/ IsNaN(b) THEN FALSE
    ELSE IF ~IsFinite(a) \/ ~IsFinite(b)
         THEN (IF ~IsFinite(a) THEN (a[1] < 0 \/ a = b) ELSE b[1] > 0)
    ELSE a[1] * b[2] <= b[1] * a[2]

RGt(a, b) ==
    IF IsNaN(a) \/ IsNaN(b) THEN FALSE ELSE ~RLeq(a, b)

(***************************************************************************)
(* The program constants and the calibration tables.                       *)
(***************************************************************************)
correctionTableSize == 29

\* C arrays are indexed from 0
ZeroBased(seq) == [i \in 0..(Len(seq) - 1) |-> seq[i + 1]]

\* float variant: row = {speed, 0 degrees, 90 degrees, 180 degrees}
speedIndex == 0
zeroDegreeIndex == 1
ninetyDegreeIndex == 2
oneeightyDegreeIndex == 3

\* lite variant: row = {0 degrees, 90 degrees, 180 degrees}
liteZeroDegreeIndex == 0
liteNinetyDegreeIndex == 1
liteOneeightyDegreeIndex == 2

FloatRow(s, c0, c90, c180) == ZeroBased(<<R(s), T(c0), T(c90), T(c180)>>)

correctionTableInit ==
  ZeroBased(
    << FloatRow(0, 0, 0, 0),
       FloatRow(20, 33, -23, -36),
       FloatRow(25, 35, -27, -46),
       FloatRow(30, 38, -29, -48),
       FloatRow(35, 42, -34, -53),
       FloatRow(40, 45, -41, -57),
       FloatRow(45, 47, -38, -45),
       FloatRow(50, 50, -45, -49),
       FloatRow(55, 53, -48, -52),
       FloatRow(60, 57, -53, -59),
       FloatRow(65, 58, -60, -60),
       FloatRow(70, 62, -56, -61),
       FloatRow(75, 64, -60, -68),
       FloatRow(80, 68, -64, -69),
       FloatRow(85, 71, -74, -68),
       FloatRow(90, 74, -80, -68),
       FloatRow(95, 75, -81, -75),
       FloatRow(100, 77, -79, -72),
       FloatRow(105, 82, -81, -77),
       FloatRow(110, 85, -85, -77),
       FloatRow(115, 89, -88, -85),
       FloatRow(120, 95, -94, -90),
       FloatRow(125, 100, -96, -98),
       FloatRow(130, 98, -98, -103),
       FloatRow(135, 98, -100, -110),
       FloatRow(140, 93, -102, -113),
       FloatRow(145, 95, -109, -105),
       FloatRow(150, 98, -121, -120),
       FloatRow(999, 98, -121, -120) >>)

\* lite variant: uint8_t speedTable[29]
speedTableInit ==
  ZeroBased(
    << 0, 20, 25, 30, 35, 40, 45, 50, 55, 60, 65, 70, 75, 80, 85, 90, 95,
       100, 105, 110, 115, 120, 125, 130, 135, 140, 145, 150, 255 >>)

LiteRow(c0, c90, c180) == ZeroBased(<<c0, c90, c180>>)

\* lite variant: int8_t correctionTable[29][3]
liteCorrectionTableInit ==
  ZeroBased(
    << LiteRow(0, 0, 0),
       LiteRow(33, -23, -36),
       LiteRow(35, -27, -46),
       LiteRow(38, -29, -48),
       LiteRow(42, -34, -53),
       LiteRow(45, -41, -57),
       LiteRow(47, -38, -45),
       LiteRow(50, -45, -49),
       LiteRow(53, -48, -52),
       LiteRow(57, -53, -59),
       LiteRow(58, -60, -60),
       LiteRow(62, -56, -61),
       LiteRow(64, -60, -68),
       LiteRow(68, -64, -69),
       LiteRow(71, -74, -68),
       LiteRow(74, -80, -68),
       LiteRow(75, -81, -75),
       LiteRow(77, -79, -72),
       LiteRow(82, -81, -77),
       LiteRow(85, -85, -77),
       LiteRow(89, -88, -85),
       LiteRow(95, -94, -90),
       LiteRow(100, -96, -98),
       LiteRow(98, -98, -103),
       LiteRow(98, -100, -110),
       LiteRow(93, -102, -113),
       LiteRow(95, -109, -105),
       LiteRow(98, -121, -120),
       LiteRow(98, -121, -120) >>)

(***************************************************************************)
(* State.                                                                  *)
(***************************************************************************)
VARIABLES
    correctionTable,      \* float variant: float correctionTable[29][4]
    speedTable,           \* lite variant: uint8_t speedTable[29]
    liteCorrectionTable,  \* lite variant: int8_t correctionTable[29][3]
    pc,                   \* position of each call in the body of correctSpeed
    frame,                \* the parameters and locals of each call
    inputs,               \* the arguments the callers pass (fixed by Init)
    calls                 \* how many calls have returned, counted to MaxCalls

vars ==
    <<correctionTable, speedTable, liteCorrectionTable, pc, frame, inputs, calls>>

tables == <<correctionTable, speedTable, liteCorrectionTable>>

\* the callers; a caller that is "off" never calls
Procs == 1..NumCallers

TableIndexes == 0..(correctionTableSize - 1)

(***************************************************************************)
(* Reads of the tables.  A row index outside 0..28 reads memory that is    *)
(* not part of the table: the call then sees an arbitrary row `outside'.   *)
(***************************************************************************)
\* conversion of a C integer value to uint8_t
ToUint8(n) == n % 256

\* float variant: correctionTable[i][col]
FloatCell(i, col, outside) ==
    IF i \in TableIndexes THEN correctionTable[i][col] ELSE outside[col]

\* lite variant: speedTable[i], converted to float
LiteSpeedCell(i, outside) ==
    IF i \in TableIndexes THEN R(speedTable[i]) ELSE outside[speedIndex]

\* lite variant: correctionTable[i][col], converted to float
LiteCell(i, col, outside) ==
    IF i \in TableIndexes THEN R(liteCorrectionTable[i][col]) ELSE outside[col + 1]

\* the speed threshold of row i
Threshold(v, i, outside) ==
    IF v = "float" THEN FloatCell(i, speedIndex, outside)
                   ELSE LiteSpeedCell(i, outside)

\* the corrections of row i at 0, 90 and 180 degrees, in table units
CorrectionAt0(v, i, outside) ==
    IF v = "float" THEN FloatCell(i, zeroDegreeIndex, outside)
                   ELSE LiteCell(i, liteZeroDegreeIndex, outside)

CorrectionAt90(v, i, outside) ==
    IF v = "float" THEN FloatCell(i, ninetyDegreeIndex, outside)
                   ELSE LiteCell(i, liteNinetyDegreeIndex, outside)

CorrectionAt180(v, i, outside) ==
    IF v = "float" THEN FloatCell(i, oneeightyDegreeIndex, outside)
                   ELSE LiteCell(i, liteOneeightyDegreeIndex, outside)

\* what a call may find in the memory outside the tables
NoRow == ZeroBased(<<R(0), R(0), R(0), R(0)>>)

FloatOutsideRows ==
    { ZeroBased(<<th, c[1], c[2], c[3]>>) :
        th \in {R(0), T(75), NaN},
        c \in { <<R(0), R(0), R(0)>>, <<T(13), T(-5), T(2)>> } }

LiteOutsideRows ==
    { ZeroBased(<<R(th), R(c[1]), R(c[2]), R(c[3])>>) :
        th \in {0, 7},
        c \in { <<0, 0, 0>>, <<13, -5, 2>> } }

OutsideRows(v) == IF v = "float" THEN FloatOutsideRows ELSE LiteOutsideRows

(***************************************************************************)
(* The statements of correctSpeed.                                         *)
(***************************************************************************)
\* a fold that subtracts the half turn instead of mirroring about it
FoldAngleShifted(angle) ==
    IF RGt(angle, R(180)) THEN RSub(angle, R(180)) ELSE angle

\* float variant: the angle used in the calculation
FoldAngle(angle) ==
    IF RGt(angle, R(180)) THEN RSub(R(180), RSub(angle, R(180))) ELSE angle

\* lite variant: the same in int arithmetic, stored in a uint8_t
LiteFoldAngle(angle) ==
    IF angle > 180 THEN ToUint8(180 - (angle - 180)) ELSE angle

CorrectionAngleOf(v, angle) ==
    IF v = "float" THEN FoldAngle(angle) ELSE R(LiteFoldAngle(angle[1]))

\* a scan that stops only at a site strictly above the input speed
OvershotStrict(v, rawSpeed, index) ==
    IF v = "float"
    THEN RGt(R(0), RSub(rawSpeed, FloatCell(index, speedIndex, NoRow)))
    ELSE rawSpeed[1] - speedTable[index] < 0

\* the test of the scan loop: has the scan reached the speed site above?
Overshot(v, rawSpeed, index) ==
    IF v = "float"
    THEN RLeq(RSub(rawSpeed, FloatCell(index, speedIndex, NoRow)), R(0))
    ELSE rawSpeed[1] - speedTable[index] <= 0

\* a low site that is not moved below the high site
IndexLowSame(v, speedIndexHigh) == speedIndexHigh

\* speedIndexLow = speedIndexHigh-1, an int in the float variant and a
\* uint8_t in the lite variant
IndexLow(v, speedIndexHigh) ==
    IF v = "float" THEN speedIndexHigh - 1 ELSE ToUint8(speedIndexHigh - 1)

SpeedDelta(v, high, low, outside) ==
    RSub(Threshold(v, high, outside), Threshold(v, low, outside))

SpeedOffset(v, rawSpeed, low, outside) ==
    RSub(rawSpeed, Threshold(v, low, outside))

\* angleFactor of the two branches
AngleFactorLower(correctionAngle) == RDiv(correctionAngle, R(90))

\* an upper branch that does not take the 90 degrees off the angle
AngleFactorUpperUnshifted(correctionAngle) == RDiv(correctionAngle, R(90))

AngleFactorUpper(correctionAngle) == RDiv(RSub(correctionAngle, R(90)), R(90))

\* an angle interpolation that adds the far site instead of the near one
AngleInterpolateFromFar(from, to, angleFactor) ==
    RAdd(RMul(RSub(to, from), angleFactor), to)

\* speedCorrectionX = (to - from); speedCorrectionX *= angleFactor;
\* speedCorrectionX += from
AngleInterpolate(from, to, angleFactor) ==
    RAdd(RMul(RSub(to, from), angleFactor), from)

\* an interpolation that starts from the high site instead of the low one
SpeedInterpolateFromHigh(speedCorrectionLow, speedCorrectionHigh, speedFactor) ==
    RAdd(RMul(RSub(speedCorrectionHigh, speedCorrectionLow), speedFactor),
         speedCorrectionHigh)

\* ((speedCorrectionHigh-speedCorrectionLow)*speedFactor)+speedCorrectionLow
SpeedInterpolate(speedCorrectionLow, speedCorrectionHigh, speedFactor) ==
    RAdd(RMul(RSub(speedCorrectionHigh, speedCorrectionLow), speedFactor),
         speedCorrectionLow)

\* a lite variant that forgets to convert the tenths back
DenormalizeMissing(v, correction) == correction

\* the lite variant stores tenths: calculatedSpeed /= 10
Denormalize(v, correction) ==
    IF v = "float" THEN correction ELSE RDiv(correction, R(10))

(***************************************************************************)
(* correctSpeed as a whole: the value one call computes when nothing else  *)
(* runs.                                                                   *)
(***************************************************************************)
RECURSIVE ScanFrom(_, _, _, _)
ScanFrom(v, rawSpeed, index, speedIndexHigh) ==
    IF index >= correctionTableSize THEN speedIndexHigh
    ELSE IF Overshot(v, rawSpeed, index) THEN index
    ELSE ScanFrom(v, rawSpeed, index + 1, index)

CorrectSpeed(v, rawSpeed, angle, outside) ==
    LET correctionAngle == CorrectionAngleOf(v, angle)
        high == ScanFrom(v, rawSpeed, 0, 0)
        low == IndexLow(v, high)
        speedFactor == RDiv(SpeedOffset(v, rawSpeed, low, outside),
                            SpeedDelta(v, high, low, outside))
        lower == RLeq(correctionAngle, R(90))
        angleFactor == IF lower THEN AngleFactorLower(correctionAngle)
                                ELSE AngleFactorUpper(correctionAngle)
        RowCorrection(i) ==
            IF lower
            THEN AngleInterpolate(CorrectionAt0(v, i, outside),
                                  CorrectionAt90(v, i, outside), angleFactor)
            ELSE AngleInterpolate(CorrectionAt90(v, i, outside),
                                  CorrectionAt180(v, i, outside), angleFactor)
    IN  RAdd(Denormalize(v, SpeedInterpolate(RowCorrection(low),
                                             RowCorrection(high), speedFactor)),
             rawSpeed)

(***************************************************************************)
(* The callers.                                                            *)
(***************************************************************************)
AngleArgs ==
    {0, 30, 89, 90, 135, 180, 181, 225, 256, 270, 271, 330, 360, 361, 400}

\* the calibrated speed sites and a speed inside the bracket above each
SiteSpeeds ==
    {speedTableInit[i] + d : i \in 1..(correctionTableSize - 2), d \in {0, 2}}

\* the arguments of the sequential caller
SeqInputs ==
    [ floatSpeeds |-> {R(n) : n \in (0..MaxSpeedArg) \cup SiteSpeeds}
                      \cup {R(-5), Rat(-1, 2), Rat(1, 2), Rat(45, 2), R(500),
                            R(999), R(1000), R(1005)},
      floatAngles |-> {R(a) : a \in AngleArgs} \cup {Rat(45, 2), Rat(675, 2)},
      liteSpeeds  |-> (0..MaxSpeedArg) \cup SiteSpeeds \cup {200, 255},
      liteAngles  |-> AngleArgs ]

\* the arguments of the concurrent callers
ConcInputs ==
    [ floatSpeeds |-> {R(1000)},
      floatAngles |-> {R(270)},
      liteSpeeds  |-> {0, 22},
      liteAngles  |-> {180} ]

IdleFrame ==
    [ variant |-> "none", argSpeed |-> R(0), argAngle |-> R(0),
      rawSpeed |-> R(0), angle |-> R(0), correctionAngle |-> R(0),
      index |-> 0, iterations |-> 0,
      speedIndexHigh |-> 0, speedIndexLow |-> 0,
      outside |-> NoRow, rowsRead |-> {},
      speedDelta |-> R(0), speedOffset |-> R(0), speedFactor |-> R(0),
      angleFactor |-> R(0), speedCorrectionLow |-> R(0),
      speedCorrectionHigh |-> R(0), calculatedSpeed |-> R(0) ]

\* entry of correctSpeed: the parameters are converted to the parameter
\* types (uint8_t in the lite variant) and the locals are initialized
NewFrame(v, s, a) ==
    [ IdleFrame EXCEPT
        !.variant = v, !.argSpeed = s, !.argAngle = a,
        !.rawSpeed = IF v = "float" THEN s ELSE R(ToUint8(s[1])),
        !.angle = IF v = "float" THEN a ELSE R(ToUint8(a[1])) ]

Call(p) ==
    /\ pc[p] = "idle"
    /\ \E v \in {"float", "lite"} :
         \E s \in (IF v = "float" THEN inputs.floatSpeeds
                                  ELSE {R(n) : n \in inputs.liteSpeeds}) :
           \E a \in (IF v = "float" THEN inputs.floatAngles
                                    ELSE {R(n) : n \in inputs.liteAngles}) :
             frame' = [frame EXCEPT ![p] = NewFrame(v, s, a)]
    /\ pc' = [pc EXCEPT ![p] = "fold"]
    /\ UNCHANGED <<tables, inputs, calls>>

\* a fold whose correctionAngle is one variable shared by all calls
FoldShared(p) ==
    /\ pc[p] = "fold"
    /\ frame' = [q \in Procs |->
                   IF q = p
                   THEN [frame[p] EXCEPT !.correctionAngle =
                            CorrectionAngleOf(frame[p].variant, frame[p].angle),
                          !.index = 0]
                   ELSE [frame[q] EXCEPT !.correctionAngle =
                            CorrectionAngleOf(frame[p].variant, frame[p].angle)]]
    /\ pc' = [pc EXCEPT ![p] = "scan"]
    /\ UNCHANGED <<tables, inputs, calls>>

Fold(p) ==
    /\ pc[p] = "fold"
    /\ frame' = [frame EXCEPT ![p].correctionAngle =
                     CorrectionAngleOf(frame[p].variant, frame[p].angle),
                   ![p].index = 0]
    /\ pc' = [pc EXCEPT ![p] = "scan"]
    /\ UNCHANGED <<tables, inputs, calls>>

\* a scan loop that records the site only when it breaks
ScanStepBreakOnly(p) ==
    /\ pc[p] = "scan"
    /\ frame[p].index < correctionTableSize
    /\ LET f == frame[p]
           seen == [f EXCEPT !.iterations = f.iterations + 1,
                             !.rowsRead = f.rowsRead \cup {f.index}]
       IN  IF Overshot(f.variant, f.rawSpeed, f.index)
           THEN /\ frame' = [frame EXCEPT ![p] =
                                [seen EXCEPT !.speedIndexHigh = f.index]]
                /\ pc' = [pc EXCEPT ![p] = "low"]
           ELSE /\ frame' = [frame EXCEPT ![p] =
                                [seen EXCEPT !.index = f.index + 1]]
                /\ pc' = pc
    /\ UNCHANGED <<tables, inputs, calls>>

\* one iteration of the scan loop
ScanStep(p) ==
    /\ pc[p] = "scan"
    /\ frame[p].index < correctionTableSize
    /\ LET f == frame[p]
           seen == [f EXCEPT !.speedIndexHigh = f.index,
                             !.iterations = f.iterations + 1,
                             !.rowsRead = f.rowsRead \cup {f.index}]
       IN  IF Overshot(f.variant, f.rawSpeed, f.index)
           THEN /\ frame' = [frame EXCEPT ![p] = seen]
                /\ pc' = [pc EXCEPT ![p] = "low"]
           ELSE /\ frame' = [frame EXCEPT ![p] =
                                [seen EXCEPT !.index = f.index + 1]]
                /\ pc' = pc
    /\ UNCHANGED <<tables, inputs, calls>>

\* the scan loop ends without break
ScanEnd(p) ==
    /\ pc[p] = "scan"
    /\ frame[p].index >= correctionTableSize
    /\ pc' = [pc EXCEPT ![p] = "low"]
    /\ UNCHANGED <<tables, frame, inputs, calls>>

SetIndexLow(p) ==
    /\ pc[p] = "low"
    /\ LET f == frame[p]
           low == IndexLow(f.variant, f.speedIndexHigh)
       IN  \E outside \in (IF low \in TableIndexes THEN {NoRow}
                                                   ELSE OutsideRows(f.variant)) :
             frame' = [frame EXCEPT ![p].speedIndexLow = low,
                                    ![p].outside = outside]
    /\ pc' = [pc EXCEPT ![p] = "factor"]
    /\ UNCHANGED <<tables, inputs, calls>>

\* a speed factor whose offset is computed in place, in the float table
SpeedFactorInPlace(p) ==
    /\ pc[p] = "factor"
    /\ LET f == frame[p]
           speedDelta == SpeedDelta(f.variant, f.speedIndexHigh,
                                    f.speedIndexLow, f.outside)
           speedOffset == SpeedOffset(f.variant, f.rawSpeed,
                                      f.speedIndexLow, f.outside)
       IN  /\ frame' = [frame EXCEPT
                          ![p].speedDelta = speedDelta,
                          ![p].speedOffset = speedOffset,
                          ![p].speedFactor = RDiv(speedOffset, speedDelta),
                          ![p].rowsRead = f.rowsRead
                              \cup {f.speedIndexHigh, f.speedIndexLow}]
           /\ correctionTable' =
                  IF f.variant = "float" /\ f.speedIndexLow \in TableIndexes
                  THEN [correctionTable EXCEPT
                           ![f.speedIndexLow][speedIndex] = speedOffset]
                  ELSE correctionTable
    /\ pc' = [pc EXCEPT ![p] = "interp"]
    /\ UNCHANGED <<speedTable, liteCorrectionTable, inputs, calls>>

SpeedFactor(p) ==
    /\ pc[p] = "factor"
    /\ LET f == frame[p]
           speedDelta == SpeedDelta(f.variant, f.speedIndexHigh,
                                    f.speedIndexLow, f.outside)
           speedOffset == SpeedOffset(f.variant, f.rawSpeed,
                                      f.speedIndexLow, f.outside)
       IN  frame' = [frame EXCEPT
                       ![p].speedDelta = speedDelta,
                       ![p].speedOffset = speedOffset,
                       ![p].speedFactor = RDiv(speedOffset, speedDelta),
                       ![p].rowsRead = f.rowsRead
                           \cup {f.speedIndexHigh, f.speedIndexLow}]
    /\ pc' = [pc EXCEPT ![p] = "interp"]
    /\ UNCHANGED <<tables, inputs, calls>>

\* the branch correctionAngle <= 90
InterpolateLower(p) ==
    /\ pc[p] = "interp"
    /\ RLeq(frame[p].correctionAngle, R(90))
    /\ LET f == frame[p]
           v == f.variant
           angleFactor == AngleFactorLower(f.correctionAngle)
           speedCorrectionLow ==
               AngleInterpolate(CorrectionAt0(v, f.speedIndexLow, f.outside),
                                CorrectionAt90(v, f.speedIndexLow, f.outside),
                                angleFactor)
           speedCorrectionHigh ==
               AngleInterpolate(CorrectionAt0(v, f.speedIndexHigh, f.outside),
                                CorrectionAt90(v, f.speedIndexHigh, f.outside),
                                angleFactor)
       IN  frame' = [frame EXCEPT
                       ![p].angleFactor = angleFactor,
                       ![p].speedCorrectionLow = speedCorrectionLow,
                       ![p].speedCorrectionHigh = speedCorrectionHigh,
                       ![p].rowsRead = f.rowsRead
                           \cup {f.speedIndexHigh, f.speedIndexLow},
                       ![p].calculatedSpeed =
                           RAdd(Denormalize(v,
                                    SpeedInterpolate(speedCorrectionLow,
                                                     speedCorrectionHigh,
                                                     f.speedFactor)),
                                f.rawSpeed)]
    /\ pc' = [pc EXCEPT ![p] = "done"]
    /\ UNCHANGED <<tables, inputs, calls>>

\* the else branch
InterpolateUpper(p) ==
    /\ pc[p] = "interp"
    /\ ~RLeq(frame[p].correctionAngle, R(90))
    /\ LET f == frame[p]
           v == f.variant
           angleFactor == AngleFactorUpper(f.correctionAngle)
           speedCorrectionLow ==
               AngleInterpolate(CorrectionAt90(v, f.speedIndexLow, f.outside),
                                CorrectionAt180(v, f.speedIndexLow, f.outside),
                                angleFactor)
           speedCorrectionHigh ==
               AngleInterpolate(CorrectionAt90(v, f.speedIndexHigh, f.outside),
                                CorrectionAt180(v, f.speedIndexHigh, f.outside),
                                angleFactor)
       IN  frame' = [frame EXCEPT
                       ![p].angleFactor = angleFactor,
                       ![p].speedCorrectionLow = speedCorrectionLow,
                       ![p].speedCorrectionHigh = speedCorrectionHigh,
                       ![p].rowsRead = f.rowsRead
                           \cup {f.speedIndexHigh, f.speedIndexLow},
                       ![p].calculatedSpeed =
                           RAdd(Denormalize(v,
                                    SpeedInterpolate(speedCorrectionLow,
                                                     speedCorrectionHigh,
                                                     f.speedFactor)),
                                f.rawSpeed)]
    /\ pc' = [pc EXCEPT ![p] = "done"]
    /\ UNCHANGED <<tables, inputs, calls>>

\* return calculatedSpeed: the frame of the call is gone
Return(p) ==
    /\ pc[p] = "done"
    /\ frame' = [frame EXCEPT ![p] = IdleFrame]
    /\ pc' = [pc EXCEPT ![p] = "idle"]
    /\ calls' = IF calls < MaxCalls THEN calls + 1 ELSE calls
    /\ UNCHANGED <<tables, inputs>>

(***************************************************************************)
(* Specifications.                                                         *)
(***************************************************************************)
InitTables ==
    /\ correctionTable = correctionTableInit
    /\ speedTable = speedTableInit
    /\ liteCorrectionTable = liteCorrectionTableInit

\* one caller, calling correctSpeed again and again
Init ==
    /\ InitTables
    /\ pc = [p \in Procs |-> IF p = 1 THEN "idle" ELSE "off"]
    /\ frame = [p \in Procs |-> IdleFrame]
    /\ inputs = SeqInputs
    /\ calls = 0

\* NumCallers callers whose calls interleave
InitConc ==
    /\ InitTables
    /\ pc = [p \in Procs |-> "idle"]
    /\ frame = [p \in Procs |-> IdleFrame]
    /\ inputs = ConcInputs
    /\ calls = 0

Next ==
    \E p \in Procs :
        \/ Call(p)
        \/ Fold(p)
        \/ ScanStep(p)
        \/ ScanEnd(p)
        \/ SetIndexLow(p)
        \/ SpeedFactor(p)
        \/ InterpolateLower(p)
        \/ InterpolateUpper(p)
        \/ Return(p)

Spec == Init /\ [][Next]_vars

SpecConc == InitConc /\ [][Next]_vars

(***************************************************************************)
(* The expected values of the unit tests, as <<input speed, expected       *)
(* speed in tenths>>.                                                      *)
(***************************************************************************)
zeroTests ==
    << <<20, 233>>, <<25, 285>>, <<30, 338>>, <<35, 392>>,
       <<40, 445>>, <<45, 497>>, <<50, 550>>, <<55, 603>>,
       <<60, 657>>, <<65, 708>>, <<70, 762>>, <<75, 814>>,
       <<80, 868>>, <<85, 921>>, <<90, 974>>, <<95, 1025>>,
       <<100, 1077>>, <<105, 1132>>, <<110, 1185>>, <<115, 1239>>,
       <<120, 1295>>, <<125, 1350>>, <<130, 1398>>, <<135, 1448>>,
       <<140, 1493>>, <<145, 1545>>, <<150, 1598>> >>

ninetyTests ==
    << <<20, 177>>, <<25, 223>>, <<30, 271>>, <<35, 316>>,
       <<40, 359>>, <<45, 412>>, <<50, 455>>, <<55, 502>>,
       <<60, 547>>, <<65, 590>>, <<70, 644>>, <<75, 690>>,
       <<80, 736>>, <<85, 776>>, <<90, 820>>, <<95, 869>>,
       <<100, 921>>, <<105, 969>>, <<110, 1015>>, <<115, 1062>>,
       <<120, 1106>>, <<125, 1154>>, <<130, 1202>>, <<135, 1250>>,
       <<140, 1298>>, <<145, 1341>>, <<150, 1379>> >>

oneeightyTests ==
    << <<20, 164>>, <<25, 204>>, <<30, 252>>, <<35, 297>>,
       <<40, 343>>, <<45, 405>>, <<50, 451>>, <<55, 498>>,
       <<60, 541>>, <<65, 590>>, <<70, 639>>, <<75, 682>>,
       <<80, 731>>, <<85, 782>>, <<90, 832>>, <<95, 875>>,
       <<100, 928>>, <<105, 973>>, <<110, 1023>>, <<115, 1065>>,
       <<120, 1110>>, <<125, 1152>>, <<130, 1197>>, <<135, 1240>>,
       <<140, 1287>>, <<145, 1345>>, <<150, 1380>> >>

oneeightySpeedIncrementTests ==
    << <<20, 164>>, <<21, 172>>, <<22, 180>>, <<23, 188>>, <<24, 196>>, <<25, 204>> >>

(***************************************************************************)
(* The calibration data in true units, and the interpolation as the        *)
(* design document states it.                                              *)
(***************************************************************************)
Finished(p) == pc[p] = "done" /\ frame[p].variant \in {"float", "lite"}

RealRows == 1..(correctionTableSize - 2)

SiteThreshold(v, i) ==
    IF v = "float" THEN correctionTableInit[i][speedIndex]
                   ELSE R(speedTableInit[i])

SiteCorrection(v, i, degrees) ==
    IF v = "float"
    THEN correctionTableInit[i][IF degrees = 0 THEN zeroDegreeIndex
                                ELSE IF degrees = 90 THEN ninetyDegreeIndex
                                ELSE oneeightyDegreeIndex]
    ELSE Rat(liteCorrectionTableInit[i][IF degrees = 0 THEN liteZeroDegreeIndex
                                        ELSE IF degrees = 90 THEN liteNinetyDegreeIndex
                                        ELSE liteOneeightyDegreeIndex], 10)

\* row_correction of the design document for row i, in true units
RowCorrection(v, i, correctionAngle) ==
    IF RLeq(correctionAngle, R(90))
    THEN RAdd(SiteCorrection(v, i, 0),
              RMul(RDiv(correctionAngle, R(90)),
                   RSub(SiteCorrection(v, i, 90), SiteCorrection(v, i, 0))))
    ELSE RAdd(SiteCorrection(v, i, 90),
              RMul(RDiv(RSub(correctionAngle, R(90)), R(90)),
                   RSub(SiteCorrection(v, i, 180), SiteCorrection(v, i, 90))))

Between(lo, x, hi) == RLeq(lo, x) /\ RLeq(x, hi)

StrictlyBetween(lo, x, hi) == RGt(x, lo) /\ RGt(hi, x)

(***************************************************************************)
(* C1: in both variants, a call at a calibrated speed site (rows 20..150)  *)
(* and at 0, 90 or 180 degrees returns the speed plus the tabulated        *)
(* correction of that row and angle, in true units; the scan takes that    *)
(* row as speedIndexHigh and the speed factor is exactly 1.  These are the *)
(* values the unit tests expect.                                           *)
(***************************************************************************)
C1_TabulatedSites ==
    \A p \in Procs :
        Finished(p) =>
            LET f == frame[p]
                v == f.variant
            IN  \A i \in RealRows :
                  \A degrees \in {0, 90, 180} :
                    (f.rawSpeed = SiteThreshold(v, i) /\ f.angle = R(degrees)) =>
                        /\ f.speedIndexHigh = i
                        /\ f.speedFactor = R(1)
                        /\ f.calculatedSpeed =
                               RAdd(f.rawSpeed, SiteCorrection(v, i, degrees))
                        /\ LET expected == IF degrees = 0 THEN zeroTests
                                           ELSE IF degrees = 90 THEN ninetyTests
                                           ELSE oneeightyTests
                           IN  /\ R(expected[i][1]) = f.rawSpeed
                               /\ T(expected[i][2]) = f.calculatedSpeed

C1_Witness ==
    \E p \in Procs :
        /\ Finished(p)
        /\ frame[p].variant = "float"
        /\ frame[p].rawSpeed = R(130)
        /\ frame[p].angle = R(180)
        /\ frame[p].speedIndexHigh = 23
        /\ frame[p].calculatedSpeed = T(1197)

(***************************************************************************)
(* C2: float variant, symmetry about 180 degrees: for raw speed > 0 and    *)
(* 0 <= angle <= 180 the call returns what correctSpeed returns for the    *)
(* same speed at 360 - angle.                                              *)
(***************************************************************************)
C2_FloatSymmetry ==
    \A p \in Procs :
        (/\ Finished(p)
         /\ frame[p].variant = "float"
         /\ RGt(frame[p].rawSpeed, R(0))
         /\ Between(R(0), frame[p].angle, R(180))) =>
            frame[p].calculatedSpeed =
                CorrectSpeed("float", frame[p].rawSpeed,
                             RSub(R(360), frame[p].angle), NoRow)

C2_Witness ==
    \E p \in Procs :
        /\ Finished(p)
        /\ frame[p].variant = "float"
        /\ frame[p].rawSpeed = R(22)
        /\ frame[p].angle = R(30)
        /\ frame[p].angleFactor = Rat(1, 3)
        /\ frame[p].calculatedSpeed =
               CorrectSpeed("float", R(22), R(330), NoRow)
        /\ frame[p].calculatedSpeed #
               CorrectSpeed("float", R(22), R(270), NoRow)

(***************************************************************************)
(* C3: in both variants correctSpeed(0, angle) returns 0 for every angle,  *)
(* and the bracket used for it has its low row index inside the table.     *)
(***************************************************************************)
C3_ZeroSpeed ==
    \A p \in Procs :
        (Finished(p) /\ frame[p].rawSpeed = R(0)) =>
            /\ frame[p].calculatedSpeed = R(0)
            /\ frame[p].speedIndexLow \in TableIndexes

(***************************************************************************)
(* C4: in both variants the correction is flat above 150: for a raw speed  *)
(* above 150 (also above the last threshold of the table) and an angle in  *)
(* [0, 360], corrected speed minus raw speed is the angle-interpolated     *)
(* correction of the 150 row, the same as at any other speed above 150.    *)
(***************************************************************************)
C4_FlatAbove150 ==
    \A p \in Procs :
        (/\ Finished(p)
         /\ RGt(frame[p].rawSpeed, R(150))
         /\ Between(R(0), frame[p].angle, R(360))) =>
            LET f == frame[p]
                v == f.variant
                mirrored == IF RGt(f.angle, R(180)) THEN RSub(R(360), f.angle)
                                                    ELSE f.angle
                correction == RSub(f.calculatedSpeed, f.rawSpeed)
            IN  /\ correction = RowCorrection(v, correctionTableSize - 2, mirrored)
                /\ correction =
                       RSub(CorrectSpeed(v, R(151), f.angle, NoRow), R(151))

C4_Witness ==
    \E p \in Procs :
        /\ Finished(p)
        /\ frame[p].variant = "float"
        /\ frame[p].rawSpeed = R(1005)
        /\ frame[p].angle = R(270)
        /\ frame[p].iterations = correctionTableSize
        /\ frame[p].speedIndexHigh = correctionTableSize - 1
        /\ RGt(frame[p].speedFactor, R(1))
        /\ frame[p].calculatedSpeed = T(9929)

(***************************************************************************)
(* C5: for a raw speed strictly between two adjacent thresholds (the 0     *)
(* sentinel included) and an angle in [0, 180], correctSpeed returns       *)
(*   raw_speed + low_correction + speed_factor * (high_correction -        *)
(*   low_correction)                                                       *)
(* in true units, with the row corrections interpolated over the angle and *)
(* speed_factor = (raw_speed - low threshold) / (high - low threshold).    *)
(* In the lite variant the speeds 20..25 at 180 degrees give 16.4, 17.2,   *)
(* 18.0, 18.8, 19.6, 20.4.                                                 *)
(***************************************************************************)
C5_BilinearInterpolation ==
    \A p \in Procs :
        (Finished(p) /\ Between(R(0), frame[p].angle, R(180))) =>
            LET f == frame[p]
                v == f.variant
            IN  /\ \A i \in 1..(correctionTableSize - 1) :
                     StrictlyBetween(SiteThreshold(v, i - 1), f.rawSpeed,
                                     SiteThreshold(v, i)) =>
                        LET speed_factor ==
                                RDiv(RSub(f.rawSpeed, SiteThreshold(v, i - 1)),
                                     RSub(SiteThreshold(v, i),
                                          SiteThreshold(v, i - 1)))
                            low_correction == RowCorrection(v, i - 1, f.angle)
                            high_correction == RowCorrection(v, i, f.angle)
                        IN  f.calculatedSpeed =
                                RAdd(f.rawSpeed,
                                     RAdd(low_correction,
                                          RMul(speed_factor,
                                               RSub(high_correction,
                                                    low_correction))))
                /\ \A t \in 1..Len(oneeightySpeedIncrementTests) :
                     (/\ v = "lite"
                      /\ f.angle = R(180)
                      /\ f.rawSpeed = R(oneeightySpeedIncrementTests[t][1])) =>
                        f.calculatedSpeed = T(oneeightySpeedIncrementTests[t][2])

C5_Witness ==
    \E p \in Procs :
        /\ Finished(p)
        /\ frame[p].variant = "lite"
        /\ frame[p].rawSpeed = R(22)
        /\ frame[p].angle = R(180)
        /\ frame[p].speedIndexLow = 1
        /\ frame[p].speedIndexHigh = 2
        /\ frame[p].speedFactor = Rat(2, 5)
        /\ frame[p].calculatedSpeed = R(18)

(***************************************************************************)
(* C6: lite variant: an angle a in (180, 360] passed by a caller through   *)
(* the uint8_t parameter is folded to the correction angle 360 - a; hence  *)
(* for raw speed 1..255 and angle 0..180 the call returns what the lite    *)
(* correctSpeed returns when the caller passes 360 - angle.                *)
(***************************************************************************)
C6_LiteFoldSymmetry ==
    \A p \in Procs :
        (Finished(p) /\ frame[p].variant = "lite") =>
            LET f == frame[p]
            IN  /\ (RGt(f.argAngle, R(180)) /\ RLeq(f.argAngle, R(360))) =>
                       f.correctionAngle = RSub(R(360), f.argAngle)
                /\ (RGt(f.rawSpeed, R(0)) /\ RLeq(f.argAngle, R(180))) =>
                       f.calculatedSpeed =
                           CorrectSpeed("lite", f.rawSpeed,
                               NewFrame("lite", f.argSpeed,
                                        RSub(R(360), f.argAngle)).angle,
                               NoRow)

(***************************************************************************)
(* C7: in both variants, for raw speed >= 0 and angle >= 0, every table    *)
(* row index the call reads (speedIndexLow and speedIndexHigh included)    *)
(* lies in 0..28 and the call completes with a numeric result.             *)
(***************************************************************************)
C7_RowIndexesInsideTable ==
    \A p \in Procs :
        (/\ frame[p].variant \in {"float", "lite"}
         /\ RLeq(R(0), frame[p].rawSpeed)
         /\ RLeq(R(0), frame[p].angle)) =>
            /\ frame[p].rowsRead \subseteq TableIndexes
            /\ pc[p] = "done" =>
                   /\ frame[p].speedIndexLow \in TableIndexes
                   /\ frame[p].speedIndexHigh \in TableIndexes
                   /\ IsFinite(frame[p].calculatedSpeed)

(***************************************************************************)
(* C8: float variant: a call with raw speed < 0 ends in an error outcome:  *)
(* it reads no table row and never arrives at returning a corrected speed. *)
(***************************************************************************)
C8_NegativeSpeedRejected ==
    \A p \in Procs :
        (frame[p].variant = "float" /\ RGt(R(0), frame[p].rawSpeed)) =>
            /\ frame[p].rowsRead = {}
            /\ pc[p] # "done"

(***************************************************************************)
(* C9: when calls of several callers interleave, every call returns a      *)
(* value that correctSpeed, run alone, returns for the arguments the       *)
(* caller passed: the value is a function of the arguments (and, for a     *)
(* read outside the table, of what that memory holds).                     *)
(***************************************************************************)
C9_InterleavingIndependent ==
    \A p \in Procs :
        Finished(p) =>
            LET f == frame[p]
                entry == NewFrame(f.variant, f.argSpeed, f.argAngle)
            IN  \E outside \in OutsideRows(f.variant) :
                    f.calculatedSpeed =
                        CorrectSpeed(f.variant, entry.rawSpeed, entry.angle,
                                     outside)

C9_Witness ==
    \E p \in Procs :
        \E q \in Procs \ {p} :
            /\ Finished(p)
            /\ frame[p].variant = "lite"
            /\ frame[p].argSpeed = R(22)
            /\ frame[p].calculatedSpeed = R(18)
            /\ pc[q] = "interp"
            /\ frame[q].variant = "float"
            /\ frame[q].correctionAngle = R(90)

(***************************************************************************)
(* C10: after any sequence of calls the calibration tables hold their      *)
(* initial values, so what a call returns is determined by its arguments,  *)
(* whatever calls came before it.                                          *)
(***************************************************************************)
C10_TablesNeverChange ==
    /\ correctionTable = correctionTableInit
    /\ speedTable = speedTableInit
    /\ liteCorrectionTable = liteCorrectionTableInit
    /\ \A p \in Procs :
           (Finished(p) /\ RGt(frame[p].rawSpeed, R(0))) =>
               frame[p].calculatedSpeed =
                   RAdd(frame[p].rawSpeed,
                        LET f == frame[p]
                            v == f.variant
                            i == CHOOSE j \in 1..(correctionTableSize - 1) :
                                     /\ \/ j = correctionTableSize - 1
                                        \/ RLeq(f.rawSpeed, SiteThreshold(v, j))
                                     /\ \A k \in 1..(j - 1) :
                                            RGt(f.rawSpeed, SiteThreshold(v, k))
                            speed_factor ==
                                RDiv(RSub(f.rawSpeed, SiteThreshold(v, i - 1)),
                                     RSub(SiteThreshold(v, i),
                                          SiteThreshold(v, i - 1)))
                        IN  RAdd(RowCorrection(v, i - 1, f.correctionAngle),
                                 RMul(speed_factor,
                                      RSub(RowCorrection(v, i, f.correctionAngle),
                                           RowCorrection(v, i - 1,
                                                         f.correctionAngle)))))

C10_Witness ==
    \E p \in Procs :
        /\ calls = MaxCalls
        /\ Finished(p)
        /\ frame[p].variant = "float"
        /\ frame[p].rawSpeed = R(150)
        /\ frame[p].angle = R(90)
        /\ frame[p].calculatedSpeed = T(1379)

(***************************************************************************)
(* C11: the lite and the float variant agree: every lite correction entry  *)
(* is 10 times the float entry of the same row, the thresholds are equal   *)
(* except the last (255 against 999), and for an integer raw speed in      *)
(* 1..255 and an integer angle in 0..255 a call of one variant returns the *)
(* value the other variant computes.                                       *)
(***************************************************************************)
OtherVariant(v) == IF v = "float" THEN "lite" ELSE "float"

IsByte(x, lowest) == x[2] = 1 /\ x[1] >= lowest /\ x[1] <= 255

C11_VariantsAgree ==
    /\ \A i \in TableIndexes :
           /\ R(liteCorrectionTable[i][liteZeroDegreeIndex]) =
                  RMul(R(10), correctionTable[i][zeroDegreeIndex])
           /\ R(liteCorrectionTable[i][liteNinetyDegreeIndex]) =
                  RMul(R(10), correctionTable[i][ninetyDegreeIndex])
           /\ R(liteCorrectionTable[i][liteOneeightyDegreeIndex]) =
                  RMul(R(10), correctionTable[i][oneeightyDegreeIndex])
           /\ i < correctionTableSize - 1 =>
                  R(speedTable[i]) = correctionTable[i][speedIndex]
    /\ speedTable[correctionTableSize - 1] = 255
    /\ correctionTable[correctionTableSize - 1][speedIndex] = R(999)
    /\ \A p \in Procs :
           (/\ Finished(p)
            /\ IsByte(frame[p].rawSpeed, 1)
            /\ IsByte(frame[p].angle, 0)) =>
               frame[p].calculatedSpeed =
                   CorrectSpeed(OtherVariant(frame[p].variant),
                                frame[p].rawSpeed, frame[p].angle, NoRow)

C11_Witness ==
    \E p \in Procs :
        /\ Finished(p)
        /\ frame[p].variant = "lite"
        /\ frame[p].rawSpeed = R(200)
        /\ frame[p].angle = R(225)
        /\ frame[p].correctionAngle = R(135)
        /\ frame[p].speedDelta = R(105)
        /\ frame[p].calculatedSpeed = Rat(18795, 100)
        /\ frame[p].calculatedSpeed =
               CorrectSpeed("float", R(200), R(225), NoRow)

(***************************************************************************)
(* C12: for 0 < raw speed <= the last threshold of the table, the scan     *)
(* leaves speedIndexHigh at the first row whose threshold is >= the raw    *)
(* speed and speedIndexLow at the row before it, so that                   *)
(* threshold[low] < raw speed <= threshold[high]; a raw speed equal to a   *)
(* threshold has that row as high.                                         *)
(***************************************************************************)
C12_BracketSelection ==
    \A p \in Procs :
        (/\ pc[p] \in {"factor", "interp", "done"}
         /\ RGt(frame[p].rawSpeed, R(0))
         /\ RLeq(frame[p].rawSpeed,
                 SiteThreshold(frame[p].variant, correctionTableSize - 1))) =>
            LET f == frame[p]
                v == f.variant
            IN  /\ f.speedIndexHigh \in 1..(correctionTableSize - 1)
                /\ RLeq(f.rawSpeed, SiteThreshold(v, f.speedIndexHigh))
                /\ \A k \in 0..(f.speedIndexHigh - 1) :
                       RGt(f.rawSpeed, SiteThreshold(v, k))
                /\ f.speedIndexLow = f.speedIndexHigh - 1
                /\ \A i \in TableIndexes :
                       f.rawSpeed = SiteThreshold(v, i) => f.speedIndexHigh = i

C12_Witness ==
    \E p \in Procs :
        /\ pc[p] = "factor"
        /\ frame[p].variant = "lite"
        /\ frame[p].rawSpeed = R(25)
        /\ frame[p].iterations = 3
        /\ frame[p].speedIndexHigh = 2
        /\ frame[p].speedIndexLow = 1

(***************************************************************************)
(* The statements that follow the scan, applied to a given bracket         *)
(* <<low, high>> and a given branch of the angle test.                     *)
(***************************************************************************)
BracketValue(v, rawSpeed, correctionAngle, low, high, lower, outside) ==
    LET speedFactor == RDiv(SpeedOffset(v, rawSpeed, low, outside),
                            SpeedDelta(v, high, low, outside))
        angleFactor == IF lower THEN AngleFactorLower(correctionAngle)
                                ELSE AngleFactorUpper(correctionAngle)
        SiteValue(i) ==
            IF lower
            THEN AngleInterpolate(CorrectionAt0(v, i, outside),
                                  CorrectionAt90(v, i, outside), angleFactor)
            ELSE AngleInterpolate(CorrectionAt90(v, i, outside),
                                  CorrectionAt180(v, i, outside), angleFactor)
    IN  RAdd(Denormalize(v, SpeedInterpolate(SiteValue(low), SiteValue(high),
                                             speedFactor)),
             rawSpeed)

(***************************************************************************)
(* C13: at an interior threshold (20..150) and an angle in [0, 180] the    *)
(* bracket below it (speed factor 1), which the call uses, and the bracket *)
(* above it (speed factor 0) give the same value; at 90 degrees the 0-90   *)
(* branch, which the call uses, and the 90-180 branch give the same value. *)
(***************************************************************************)
C13_Continuity ==
    \A p \in Procs :
        (/\ Finished(p)
         /\ RGt(frame[p].rawSpeed, R(0))
         /\ Between(R(0), frame[p].angle, R(180))) =>
            LET f == frame[p]
                v == f.variant
                lower == RLeq(f.correctionAngle, R(90))
            IN  /\ \A i \in RealRows :
                       f.rawSpeed = SiteThreshold(v, i) =>
                           /\ f.speedFactor = R(1)
                           /\ f.calculatedSpeed =
                                  BracketValue(v, f.rawSpeed, f.correctionAngle,
                                               i - 1, i, lower, NoRow)
                           /\ f.calculatedSpeed =
                                  BracketValue(v, f.rawSpeed, f.correctionAngle,
                                               i, i + 1, lower, NoRow)
                           /\ SpeedOffset(v, f.rawSpeed, i, NoRow) = R(0)
                /\ f.correctionAngle = R(90) =>
                       /\ f.angleFactor = R(1)
                       /\ AngleFactorUpper(f.correctionAngle) = R(0)
                       /\ f.calculatedSpeed =
                              BracketValue(v, f.rawSpeed, f.correctionAngle,
                                           f.speedIndexLow, f.speedIndexHigh,
                                           TRUE, NoRow)
                       /\ f.calculatedSpeed =
                              BracketValue(v, f.rawSpeed, f.correctionAngle,
                                           f.speedIndexLow, f.speedIndexHigh,
                                           FALSE, NoRow)

C13_Witness ==
    \E p \in Procs :
        /\ Finished(p)
        /\ frame[p].variant = "float"
        /\ frame[p].rawSpeed = R(45)
        /\ frame[p].angle = R(90)
        /\ frame[p].speedIndexHigh = 6
        /\ frame[p].calculatedSpeed = T(412)
        /\ BracketValue("float", R(45), R(90), 6, 7, FALSE, NoRow) = T(412)

(***************************************************************************)
(* C14: in both variants, for raw speed > 0 the divisor speedDelta =       *)
(* threshold[speedIndexHigh] - threshold[speedIndexLow] is strictly        *)
(* positive, so the speed factor is never a division by zero; the          *)
(* thresholds of the tables are strictly increasing from row 0 to row 28.  *)
(***************************************************************************)
C14_SpeedDeltaPositive ==
    /\ \A i \in 0..(correctionTableSize - 2) :
           /\ RGt(correctionTable[i + 1][speedIndex], correctionTable[i][speedIndex])
           /\ speedTable[i + 1] > speedTable[i]
    /\ \A p \in Procs :
           (/\ pc[p] \in {"interp", "done"}
            /\ RGt(frame[p].rawSpeed, R(0))) =>
               /\ RGt(frame[p].speedDelta, R(0))
               /\ IsFinite(frame[p].speedDelta)
               /\ IsFinite(frame[p].speedFactor)
               /\ frame[p].speedDelta =
                      RSub(SiteThreshold(frame[p].variant, frame[p].speedIndexHigh),
                           SiteThreshold(frame[p].variant,
                                         frame[p].speedIndexHigh - 1))

C14_Witness ==
    \E p \in Procs :
        /\ pc[p] = "interp"
        /\ frame[p].variant = "float"
        /\ frame[p].rawSpeed = R(1005)
        /\ frame[p].speedDelta = R(849)
        /\ frame[p].speedFactor = Rat(855, 849)

(***************************************************************************)
(* C15: the scan ends after at most correctionTableSize = 29 iterations;   *)
(* for a raw speed above every threshold but the last one it ends with     *)
(* speedIndexHigh = 28 and speedIndexLow = 27, also when the raw speed is  *)
(* above the last threshold and the loop ends without break.               *)
(***************************************************************************)
C15_ScanBounded ==
    \A p \in Procs :
        LET f == frame[p]
            aboveSites == RGt(f.rawSpeed,
                              SiteThreshold(f.variant, correctionTableSize - 2))
            aboveTable == RGt(f.rawSpeed,
                              SiteThreshold(f.variant, correctionTableSize - 1))
        IN  /\ f.iterations <= correctionTableSize
            /\ f.index <= correctionTableSize
            /\ pc[p] = "scan" => f.iterations = f.index
            /\ (pc[p] \in {"low", "factor", "interp", "done"} /\ aboveSites) =>
                   f.speedIndexHigh = correctionTableSize - 1
            /\ (pc[p] \in {"factor", "interp", "done"} /\ aboveSites) =>
                   f.speedIndexLow = correctionTableSize - 2
            /\ (pc[p] \in {"low", "factor", "interp", "done"} /\ aboveTable) =>
                   /\ f.iterations = correctionTableSize
                   /\ f.index = correctionTableSize

C15_Witness ==
    \E p \in Procs :
        /\ pc[p] = "factor"
        /\ frame[p].variant = "float"
        /\ frame[p].rawSpeed = R(1000)
        /\ frame[p].index = correctionTableSize
        /\ frame[p].iterations = correctionTableSize
        /\ frame[p].speedIndexHigh = 28
        /\ frame[p].speedIndexLow = 27

(***************************************************************************)
(* C16: the interpolation weights and the blended correction of a          *)
(* finished call, in true units.                                           *)
(***************************************************************************)
BlendedCorrection(p) == RSub(frame[p].calculatedSpeed, frame[p].rawSpeed)

\* the four table values the call interpolates
BlendedSites(p) ==
    LET f == frame[p]
        cols == IF RLeq(f.correctionAngle, R(90)) THEN {0, 90} ELSE {90, 180}
    IN  {SiteCorrection(f.variant, i, c) :
            i \in {f.speedIndexLow, f.speedIndexHigh}, c \in cols}

WithinSites(p) ==
    /\ \E a \in BlendedSites(p) : RLeq(a, BlendedCorrection(p))
    /\ \E b \in BlendedSites(p) : RLeq(BlendedCorrection(p), b)

IsFraction(x) == RLeq(R(0), x) /\ RLeq(x, R(1))

(***************************************************************************)
(* C16 as stated: for every raw speed > 0 and every angle in [0, 360],     *)
(* 0 < speed_factor <= 1 and 0 <= angle_factor <= 1, and the blended       *)
(* correction lies between the smallest and the largest of the four table  *)
(* values it interpolates.                                                 *)
(***************************************************************************)
C16_WeightsAreFractions ==
    \A p \in Procs :
        (/\ Finished(p)
         /\ RGt(frame[p].rawSpeed, R(0))
         /\ Between(R(0), frame[p].angle, R(360))) =>
            /\ RGt(frame[p].speedFactor, R(0))
            /\ RLeq(frame[p].speedFactor, R(1))
            /\ IsFraction(frame[p].angleFactor)
            /\ WithinSites(p)

(***************************************************************************)
(* C16 amended: for every raw speed > 0 and every angle in [0, 360],       *)
(* 0 <= angle_factor <= 1 and 0 < speed_factor, and speed_factor <= 1 for  *)
(* a raw speed up to the last threshold of the table (999 float, 255       *)
(* lite); above it the float speed_factor exceeds 1.  In every case the    *)
(* blended correction lies between the smallest and the largest of the     *)
(* four table values it interpolates.                                      *)
(***************************************************************************)
C16_WeightsUpToLastThreshold ==
    \A p \in Procs :
        (/\ Finished(p)
         /\ RGt(frame[p].rawSpeed, R(0))
         /\ Between(R(0), frame[p].angle, R(360))) =>
            LET f == frame[p]
                last == SiteThreshold(f.variant, correctionTableSize - 1)
            IN  /\ RGt(f.speedFactor, R(0))
                /\ RLeq(f.rawSpeed, last) <=> RLeq(f.speedFactor, R(1))
                /\ IsFraction(f.angleFactor)
                /\ WithinSites(p)

C16_Witness ==
    \E p \in Procs :
        /\ Finished(p)
        /\ frame[p].variant = "float"
        /\ frame[p].rawSpeed = R(1005)
        /\ frame[p].angle = R(225)
        /\ frame[p].angleFactor = Rat(1, 2)
        /\ RGt(frame[p].speedFactor, R(1))
        /\ BlendedCorrection(p) = Rat(-1205, 100)
        /\ WithinSites(p)

====
